---- MODULE Spec2Model ----
(***************************************************************************)
(* Model of src/tmdb.py: the two-tier cache (search_cache.json and one     *)
(* file per title), the resolver _pick_best_result and the thread-pool     *)
(* orchestrator resolve_and_fetch_credits_parallel.                        *)
(*                                                                         *)
(* Strings are sequences of one-character strings.  A file is an inode     *)
(* holding the chunks that have reached it; a path names an inode.         *)
(***************************************************************************)
EXTENDS Integers, Sequences, FiniteSets, TLC

\* ------------------------------------------------------------------ bounds
MaxBatch == 2          \* longest titles_years list
MaxRuns == 2           \* calls of resolve_and_fetch_credits_parallel in a row
MaxPool == 2           \* largest max_workers tried

\* ------------------------------------------------------- values and strings
NoYear == 0 - 1        \* year is None
NoneType == "None"     \* media_type None of a no-match entry
Miss == [media_type |-> "", id |-> 0 - 1]   \* dict.get(key) returning None

DigitChars == <<"0", "1", "2", "3", "4", "5", "6", "7", "8", "9">>

IsDigit(c) == \E i \in 1..10 : DigitChars[i] = c

DigitVal(c) == (CHOOSE i \in 1..10 : DigitChars[i] = c) - 1

RECURSIVE ToInt(_)
ToInt(s) ==
    IF s = <<>> THEN 0
    ELSE 10 * ToInt(SubSeq(s, 1, Len(s) - 1)) + DigitVal(s[Len(s)])

RECURSIVE IntStr(_)
IntStr(n) ==
    IF n < 10 THEN <<DigitChars[n + 1]>>
    ELSE IntStr(n \div 10) \o <<DigitChars[(n % 10) + 1]>>

LowerChar(c) == IF c = "A" THEN "a" ELSE IF c = "B" THEN "b" ELSE c

Lower(s) == [i \in 1..Len(s) |-> LowerChar(s[i])]

RECURSIVE Strip(_)
Strip(s) ==
    IF s = <<>> THEN s
    ELSE IF Head(s) = " " THEN Strip(Tail(s))
    ELSE IF s[Len(s)] = " " THEN Strip(SubSeq(s, 1, Len(s) - 1))
    ELSE s

\* Line 49 without strip() and lower().
_search_cache_key_raw(title, year) ==
    title \o <<"|">> \o (IF year # NoYear THEN IntStr(year) ELSE <<>>)

_search_cache_key(title, year) ==
    Lower(Strip(title)) \o <<"|">> \o (IF year # NoYear THEN IntStr(year) ELSE <<>>)

\* ------------------------------------------------------------ the resolver
Prefix4(d) == SubSeq(d, 1, 4)

YearMatches(r, year) ==
    LET d == IF r.media_type = "movie" THEN r.release_date ELSE r.first_air_date
    IN  /\ Len(d) >= 4
        /\ \A i \in 1..4 : IsDigit(d[i])
        /\ ToInt(Prefix4(d)) = year

NoPick == [media_type |-> "", id |-> 0 - 1]   \* _pick_best_result returning None

\* The resolver without the year scan of lines 104-112.
_pick_top_result(results, year) ==
    IF results = <<>> THEN NoPick
    ELSE [media_type |-> results[1].media_type, id |-> results[1].id]

_pick_best_result(results, year) ==
    IF results = <<>> THEN NoPick
    ELSE IF year # NoYear /\ \E i \in 1..Len(results) : YearMatches(results[i], year)
    THEN LET i == CHOOSE j \in 1..Len(results) :
                      /\ YearMatches(results[j], year)
                      /\ \A k \in 1..(j - 1) : ~YearMatches(results[k], year)
         IN  [media_type |-> results[i].media_type, id |-> results[i].id]
    ELSE [media_type |-> results[1].media_type, id |-> results[1].id]

\* ------------------------------------------------------- the remote catalog
\* JSON values of a payload: an int, null, or a list of them.
JInt(n) == [t |-> "int", v |-> n]
JNull == [t |-> "null", v |-> 0]
\* The number n + 1/2: a JSON number that Python does not read as an int.
JFloat(n) == [t |-> "float", v |-> n]

Cand(mt, id, rel, air) ==
    [media_type |-> mt, id |-> id, release_date |-> rel, first_air_date |-> air]

Date1999 == <<"1", "9", "9", "9", "-", "0", "3">>
Date2005 == <<"2", "0", "0", "5", "-", "1", "1">>

\* What GET /search/multi answers for a query (the service ignores case and
\* surrounding blanks); persons are part of the answer.
RemoteSearch(title) ==
    IF Lower(Strip(title)) = <<"a">>
    THEN << Cand("person", 7, <<>>, <<>>),
            Cand("movie", 1, Date1999, <<>>),
            Cand("tv", 2, <<>>, Date2005) >>
    ELSE << Cand("person", 8, <<>>, <<>>) >>

search_multi(title) ==
    SelectSeq(RemoteSearch(title), LAMBDA x : x.media_type \in {"movie", "tv"})

\* What GET /{media_type}/{id} answers.
RemotePayload(mt, id) ==
    IF mt = "movie"
    THEN [id |-> id, runtime |-> JInt(100 + id), episode_run_time |-> <<>>,
          _media_type |-> "", _normalized_runtime |-> 0]
    ELSE [id |-> id, runtime |-> JNull, episode_run_time |-> <<JInt(0), JInt(40 + id)>>,
          _media_type |-> "", _normalized_runtime |-> 0]

RECURSIVE FirstPositive(_)
FirstPositive(rts) ==
    IF rts = <<>> THEN 0
    ELSE IF Head(rts).t = "int" /\ Head(rts).v > 0 THEN Head(rts).v
    ELSE FirstPositive(Tail(rts))

\* payload.get("runtime"): None when the key is missing.
GetRuntime(payload) ==
    IF "runtime" \in DOMAIN payload THEN payload.runtime ELSE JNull

\* payload.get("episode_run_time") or []
GetEpisodeRunTime(payload) ==
    IF "episode_run_time" \in DOMAIN payload THEN payload.episode_run_time ELSE <<>>

\* Line 127 without the rt > 0 test.
_runtime_minutes_unchecked(payload, mt) ==
    IF mt = "movie"
    THEN IF GetRuntime(payload).t = "int" THEN GetRuntime(payload).v ELSE 0
    ELSE FirstPositive(GetEpisodeRunTime(payload))

_normalized_runtime_minutes(payload, mt) ==
    IF mt = "movie"
    THEN IF GetRuntime(payload).t = "int" /\ GetRuntime(payload).v > 0
         THEN GetRuntime(payload).v ELSE 0
    ELSE FirstPositive(GetEpisodeRunTime(payload))

\* title_with_credits, lines 154-158: the payload with its two helper fields.
Augmented(mt, id) ==
    LET p == RemotePayload(mt, id)
    IN  [p EXCEPT !._media_type = mt,
                  !._normalized_runtime = _normalized_runtime_minutes(p, mt)]

\* ------------------------------------------------------------ the file system
SearchPath == <<"search_cache", 0>>

_title_cache_path(mt, id) == <<IF mt = "tv" THEN "tv" ELSE "movie", id>>

TitlePaths == {_title_cache_path("movie", 1), _title_cache_path("tv", 2)}

Paths == {SearchPath} \cup TitlePaths

Chunks == {1, 2}       \* a file reaches the disk in two writes
Junk == {0}            \* bytes that are no JSON document

Parseable(f) == f.chunks = Chunks

\* A file cut short by a writer, as opposed to junk found at start-up.
Torn(f) == f.chunks # Chunks /\ f.chunks # Junk

Live(c, t, h, mh) ==
    ({c[p] : p \in Paths} \cup {t[p] : p \in Paths} \cup {h[i] : i \in DOMAIN h} \cup {mh})
        \ {0}

\* Inodes no path and no open handle refers to are gone.
Gc(f, c, t, h, mh) == [n \in (DOMAIN f) \cap Live(c, t, h, mh) |-> f[n]]

FreshId(f) == CHOOSE n \in 1..(Cardinality(DOMAIN f) + 1) : n \notin DOMAIN f

\* ------------------------------------------------------------------- inputs
Titles == { <<"a">>, <<" ", "A", " ">>, <<"b">> }
Years == {NoYear, 2005}
Queries == [title : Titles, year : Years]
Batches == UNION { [1..n -> Queries] : n \in 1..MaxBatch }

\* Lines 187-188 for every query: what is picked from the search's answer.
Picks == { <<q, _pick_best_result(search_multi(q.title), q.year)>> : q \in Queries }

Picked(q) == (CHOOSE p \in Picks : p[1] = q)[2]

NoMatchEntry == [media_type |-> NoneType, id |-> 0]

\* The entry the worker leaves in the search cache for a query.
EntryFor(q) ==
    LET picked == _pick_best_result(search_multi(q.title), q.year)
    IN  IF picked = NoPick THEN NoMatchEntry ELSE picked

\* A search cache left behind by an earlier batch.
WarmQueries == { [title |-> <<"a">>, year |-> NoYear], [title |-> <<"b">>, year |-> NoYear] }
WarmCache ==
    [k \in {_search_cache_key(q.title, q.year) : q \in WarmQueries} |->
        EntryFor(CHOOSE q \in WarmQueries : _search_cache_key(q.title, q.year) = k)]

EmptyCache == [k \in {} |-> NoMatchEntry]

VARIABLES
    titles_years,    \* titles_years
    max_workers,     \* max_workers
    run,             \* which call of resolve_and_fetch_credits_parallel this is
    mainPc,          \* where the calling thread is
    search_cache,    \* the dict loaded at line 176
    items,           \* items
    no_match_items,  \* no_match_items
    collected,       \* futures as_completed has handed to the loop
    saves,           \* completed _save_search_cache calls of this run
    pc,              \* where each worker is
    cached,          \* worker local: cached
    media_type,      \* worker local: media_type
    tmdb_id,         \* worker local: tmdb_id
    payload,         \* worker local: payload
    lock,            \* _cache_lock: 0 or the worker holding it
    searched,        \* the worker has issued GET /search/multi
    fetched,         \* the worker has issued GET /{media_type}/{id}
    failKind,        \* what raised in a failed worker
    found,           \* what each worker's _load_title_from_cache found at its path
    loaded,          \* what _load_search_cache found at its path
    inode,           \* inode number -> [data, chunks]
    canon,           \* path -> inode number (0: no such file)
    tmpf,            \* path + ".tmp" -> inode number
    handle,          \* the file each worker has open for writing
    mainHandle,      \* the file the calling thread has open for writing
    cold,            \* the run started with no cache file at all
    prev,            \* what the previous run returned
    arg,             \* the arguments of a function called on its own
    res,             \* what that call returned
    called           \* the function called on its own ("" when none)

vars == << titles_years, max_workers, run, mainPc, search_cache, items, no_match_items,
           collected, saves, pc, cached, media_type, tmdb_id, payload, lock,
           searched, fetched, failKind, found, loaded, inode, canon, tmpf, handle,
           mainHandle, cold, prev, arg, res, called >>

callVars == << arg, res, called >>
mainVars == << mainPc, items, no_match_items, collected, saves, mainHandle, loaded >>
diskVars == << inode, canon, tmpf, handle >>
runVars == << titles_years, max_workers, run, cold, prev, callVars >>

W == 1..Len(titles_years)

Key(i) == _search_cache_key(titles_years[i].title, titles_years[i].year)

Finished(i) == pc[i] \in {"ok", "no_match", "failed"}

Running == {i \in W : pc[i] \notin {"queued", "ok", "no_match", "failed"}}

NoPayload == [id |-> 0, runtime |-> JNull, episode_run_time |-> <<>>,
              _media_type |-> "", _normalized_runtime |-> 0]

NoResult == [ok |-> FALSE, cold |-> FALSE, clean |-> FALSE, matched |-> <<>>, unmatched |-> <<>>]

\* ---------------------------------------------------------------- start-up
\* A file: the document json.dump is writing into it and the chunks of it that
\* have arrived.  The documents written here (string keys; ints, strings, None
\* and lists as values) are the values json.load gives back.
FileOf(data, chunks) == [data |-> data, chunks |-> chunks]

\* The cache directory as a run may find it: nothing, junk, or an earlier
\* batch's search cache; the title files all absent or all junk.
DiskStates ==
    { [search |-> s, titles |-> t] : s \in {"absent", "junk", "warm"},
                                     t \in {"absent", "junk"} }

InitInode(d) ==
    LET s == IF d.search = "absent" THEN <<>>
             ELSE IF d.search = "junk" THEN << FileOf(EmptyCache, Junk) >>
             ELSE << FileOf(WarmCache, Chunks) >>
        t == IF d.titles = "absent" THEN <<>>
             ELSE << FileOf(NoPayload, Junk), FileOf(NoPayload, Junk) >>
    IN  s \o t

InitCanon(d) ==
    LET base == IF d.search = "absent" THEN 0 ELSE 1
    IN  [p \in Paths |->
            IF p = SearchPath THEN base
            ELSE IF d.titles = "absent" THEN 0
            ELSE IF p = _title_cache_path("movie", 1) THEN base + 1 ELSE base + 2]

WorkerInit(qs) ==
    /\ pc = [i \in 1..Len(qs) |-> "queued"]
    /\ cached = [i \in 1..Len(qs) |-> Miss]
    /\ media_type = [i \in 1..Len(qs) |-> ""]
    /\ tmdb_id = [i \in 1..Len(qs) |-> 0]
    /\ payload = [i \in 1..Len(qs) |-> NoPayload]
    /\ searched = [i \in 1..Len(qs) |-> FALSE]
    /\ fetched = [i \in 1..Len(qs) |-> FALSE]
    /\ failKind = [i \in 1..Len(qs) |-> ""]
    /\ found = [i \in 1..Len(qs) |-> ""]
    /\ loaded = ""
    /\ handle = [i \in 1..Len(qs) |-> 0]
    /\ collected = [i \in 1..Len(qs) |-> FALSE]

Init ==
    /\ titles_years \in Batches
    /\ max_workers \in 1..MaxPool
    /\ run = 1
    /\ mainPc = "start"
    /\ search_cache = EmptyCache
    /\ items = <<>>
    /\ no_match_items = <<>>
    /\ saves = 0
    /\ lock = 0
    /\ mainHandle = 0
    /\ cold = FALSE
    /\ prev = NoResult
    /\ arg = <<>>
    /\ res = <<>>
    /\ called = ""
    /\ WorkerInit(titles_years)
    /\ \E d \in DiskStates :
          /\ inode = InitInode(d)
          /\ canon = InitCanon(d)
    /\ tmpf = [p \in Paths |-> 0]

\* ----------------------------------------------------------- the cache files
\* _load_search_cache: the mapping of the file, {} when absent or unparseable.
_load_search_cache ==
    IF canon[SearchPath] # 0 /\ Parseable(inode[canon[SearchPath]])
    THEN inode[canon[SearchPath]].data
    ELSE EmptyCache

\* The load without the try/except of lines 61-65: whatever the file holds.
_load_title_unchecked(mt, id) ==
    LET p == _title_cache_path(mt, id)
    IN  IF canon[p] # 0 THEN << inode[canon[p]].data >> ELSE <<>>

\* _load_title_from_cache: <<payload>> on a hit, <<>> for None.
_load_title_from_cache(mt, id) ==
    LET p == _title_cache_path(mt, id)
    IN  IF canon[p] # 0 /\ Parseable(inode[canon[p]])
        THEN << inode[canon[p]].data >>
        ELSE <<>>

\* What is at a path: nothing, a JSON document, or bytes that are none.
Seen(p) ==
    IF canon[p] = 0 THEN "absent"
    ELSE IF Parseable(inode[canon[p]]) THEN "document" ELSE "unparseable"

\* open(tmp, "w"): the number of the inode now at tmp, created or truncated.
OpenedId(p) == IF tmpf[p] # 0 THEN tmpf[p] ELSE FreshId(inode)

OpenedInodes(p, data) ==
    LET n == OpenedId(p)
    IN  [m \in (DOMAIN inode) \cup {n} |-> IF m = n THEN FileOf(data, {}) ELSE inode[m]]

Written(n, data, chunk) ==
    [inode EXCEPT ![n] = FileOf(data, inode[n].chunks \cup {chunk})]

Get(cache, k) == IF k \in DOMAIN cache THEN cache[k] ELSE Miss

Put(cache, k, e) == [x \in (DOMAIN cache) \cup {k} |-> IF x = k THEN e ELSE cache[x]]

\* Line 201 testing tmdb_id against None instead of for truth.
IsNoMatchIdIsNone(mt, id) == id = 0 - 1

\* Line 201: not tmdb_id or media_type not in ("movie", "tv").
IsNoMatch(mt, id) == id = 0 \/ mt \notin {"movie", "tv"}

\* ------------------------------------------------------------- the workers
\* A pool that starts a thread for every submitted call, whatever max_workers.
StartUnbounded(i) ==
    /\ mainPc \in {"collect", "raising"}
    /\ pc[i] = "queued"
    /\ pc' = [pc EXCEPT ![i] = "acq_read"]
    /\ UNCHANGED << runVars, mainVars, diskVars, search_cache, cached, media_type,
                    tmdb_id, payload, lock, searched, fetched, failKind, found >>

\* A pool thread takes the next queued call (lines 207-208).
Start(i) ==
    /\ mainPc \in {"collect", "raising"}
    /\ pc[i] = "queued"
    /\ \A j \in 1..(i - 1) : pc[j] # "queued"
    /\ Cardinality(Running) < max_workers
    /\ pc' = [pc EXCEPT ![i] = "acq_read"]
    /\ UNCHANGED << runVars, mainVars, diskVars, search_cache, cached, media_type,
                    tmdb_id, payload, lock, searched, fetched, failKind , found >>

\* The with blocks of lines 183, 190, 195 entered without waiting for the lock.
AcquireHeld(i) ==
    /\ pc[i] \in {"acq_read", "acq_none", "acq_put"}
    /\ lock' = i
    /\ pc' = [pc EXCEPT ![i] = IF pc[i] = "acq_read" THEN "read"
                                ELSE IF pc[i] = "acq_none" THEN "put_none" ELSE "put"]
    /\ UNCHANGED << runVars, mainVars, diskVars, search_cache, cached, media_type,
                    tmdb_id, payload, searched, fetched, failKind, found >>

\* with _cache_lock: entered (lines 183, 190, 195).
Acquire(i) ==
    /\ pc[i] \in {"acq_read", "acq_none", "acq_put"}
    /\ lock = 0
    /\ lock' = i
    /\ pc' = [pc EXCEPT ![i] = IF pc[i] = "acq_read" THEN "read"
                                ELSE IF pc[i] = "acq_none" THEN "put_none" ELSE "put"]
    /\ UNCHANGED << runVars, mainVars, diskVars, search_cache, cached, media_type,
                    tmdb_id, payload, searched, fetched, failKind , found >>

\* The lookup of lines 184-186 followed by the search of line 187 whatever
\* the lookup found.
ReadCacheThenSearch(i) ==
    /\ pc[i] = "read"
    /\ lock = i
    /\ cached' = [cached EXCEPT ![i] = Get(search_cache, Key(i))]
    /\ pc' = [pc EXCEPT ![i] = "search"]
    /\ lock' = 0
    /\ UNCHANGED << runVars, mainVars, diskVars, search_cache, media_type, tmdb_id,
                    payload, searched, fetched, failKind, found >>

\* Lines 184-186 and 197-202: the lookup, and what a hit leads to.
ReadCache(i) ==
    /\ pc[i] = "read"
    /\ lock = i
    /\ LET c == Get(search_cache, Key(i))
       IN  /\ cached' = [cached EXCEPT ![i] = c]
           /\ IF c = Miss
              THEN /\ pc' = [pc EXCEPT ![i] = "search"]
                   /\ UNCHANGED << media_type, tmdb_id >>
              ELSE /\ media_type' = [media_type EXCEPT ![i] = c.media_type]
                   /\ tmdb_id' = [tmdb_id EXCEPT ![i] = c.id]
                   /\ pc' = [pc EXCEPT ![i] =
                                IF IsNoMatch(c.media_type, c.id) THEN "no_match" ELSE "load"]
    /\ lock' = 0
    /\ UNCHANGED << runVars, mainVars, diskVars, search_cache, payload, searched,
                    fetched, failKind , found >>

\* Lines 187-194: the remote search answers.
SearchOk(i) ==
    /\ pc[i] = "search"
    /\ searched' = [searched EXCEPT ![i] = TRUE]
    /\ LET picked == Picked(titles_years[i])
       IN  IF picked = NoPick
           THEN /\ pc' = [pc EXCEPT ![i] = "acq_none"]
                /\ UNCHANGED << media_type, tmdb_id >>
           ELSE /\ pc' = [pc EXCEPT ![i] = "acq_put"]
                /\ media_type' = [media_type EXCEPT ![i] = picked.media_type]
                /\ tmdb_id' = [tmdb_id EXCEPT ![i] = picked.id]
    /\ UNCHANGED << runVars, mainVars, diskVars, search_cache, cached, payload, lock,
                    fetched, failKind , found >>

\* The worker catching the exception of line 187 and going on as if the
\* search had answered with no candidate.
SearchFailAsNone(i) ==
    /\ pc[i] = "search"
    /\ searched' = [searched EXCEPT ![i] = TRUE]
    /\ pc' = [pc EXCEPT ![i] = "acq_none"]
    /\ failKind' = [failKind EXCEPT ![i] = "search"]
    /\ UNCHANGED << runVars, mainVars, diskVars, search_cache, cached, media_type,
                    tmdb_id, payload, lock, fetched, found >>

\* Line 88: raise_for_status, or requests.get itself, raises.
SearchFail(i) ==
    /\ pc[i] = "search"
    /\ searched' = [searched EXCEPT ![i] = TRUE]
    /\ pc' = [pc EXCEPT ![i] = "failed"]
    /\ failKind' = [failKind EXCEPT ![i] = "search"]
    /\ UNCHANGED << runVars, mainVars, diskVars, search_cache, cached, media_type,
                    tmdb_id, payload, lock, fetched , found >>

\* Lines 190-192 storing the no-match under the default type of line 115.
PutNoneTyped(i) ==
    /\ pc[i] = "put_none"
    /\ lock = i
    /\ search_cache' = Put(search_cache, Key(i), [media_type |-> "movie", id |-> 0])
    /\ lock' = 0
    /\ pc' = [pc EXCEPT ![i] = "no_match"]
    /\ UNCHANGED << runVars, mainVars, diskVars, cached, media_type, tmdb_id, payload,
                    searched, fetched, failKind, found >>

\* Lines 190-192: the no-match entry.
PutNone(i) ==
    /\ pc[i] = "put_none"
    /\ lock = i
    /\ search_cache' = Put(search_cache, Key(i), NoMatchEntry)
    /\ lock' = 0
    /\ pc' = [pc EXCEPT ![i] = "no_match"]
    /\ UNCHANGED << runVars, mainVars, diskVars, cached, media_type, tmdb_id, payload,
                    searched, fetched, failKind , found >>

\* Lines 195-196 and 201-202: the resolved entry.
PutEntry(i) ==
    /\ pc[i] = "put"
    /\ lock = i
    /\ search_cache' = Put(search_cache, Key(i),
                           [media_type |-> media_type[i], id |-> tmdb_id[i]])
    /\ lock' = 0
    /\ pc' = [pc EXCEPT ![i] =
                 IF IsNoMatch(media_type[i], tmdb_id[i]) THEN "no_match" ELSE "load"]
    /\ UNCHANGED << runVars, mainVars, diskVars, cached, media_type, tmdb_id, payload,
                    searched, fetched, failKind , found >>

\* Lines 142-144: the record cache is asked first.
LoadTitle(i) ==
    /\ pc[i] = "load"
    /\ LET hit == _load_title_from_cache(media_type[i], tmdb_id[i])
       IN  IF hit # <<>>
           THEN /\ payload' = [payload EXCEPT ![i] = hit[1]]
                /\ pc' = [pc EXCEPT ![i] = "ok"]
           ELSE /\ pc' = [pc EXCEPT ![i] = "fetch"]
                /\ UNCHANGED payload
    /\ found' = [found EXCEPT ![i] = Seen(_title_cache_path(media_type[i], tmdb_id[i]))]
    /\ UNCHANGED << runVars, mainVars, diskVars, search_cache, cached, media_type,
                    tmdb_id, lock, searched, fetched, failKind >>

\* Lines 146-158: the remote fetch answers.
FetchOk(i) ==
    /\ pc[i] = "fetch"
    /\ fetched' = [fetched EXCEPT ![i] = TRUE]
    /\ payload' = [payload EXCEPT ![i] = Augmented(media_type[i], tmdb_id[i])]
    /\ pc' = [pc EXCEPT ![i] = "open"]
    /\ UNCHANGED << runVars, mainVars, diskVars, search_cache, cached, media_type,
                    tmdb_id, lock, searched, failKind , found >>

\* Line 153.
FetchFail(i) ==
    /\ pc[i] = "fetch"
    /\ fetched' = [fetched EXCEPT ![i] = TRUE]
    /\ pc' = [pc EXCEPT ![i] = "failed"]
    /\ failKind' = [failKind EXCEPT ![i] = "fetch"]
    /\ UNCHANGED << runVars, mainVars, diskVars, search_cache, cached, media_type,
                    tmdb_id, payload, lock, searched , found >>

\* Line 72: open(tmp, "w").
OpenTitleTmp(i) ==
    /\ pc[i] = "open"
    /\ LET p == _title_cache_path(media_type[i], tmdb_id[i])
       IN  /\ inode' = OpenedInodes(p, payload[i])
           /\ tmpf' = [tmpf EXCEPT ![p] = OpenedId(p)]
           /\ handle' = [handle EXCEPT ![i] = OpenedId(p)]
    /\ pc' = [pc EXCEPT ![i] = "w1"]
    /\ UNCHANGED << runVars, mainVars, canon, search_cache, cached, media_type,
                    tmdb_id, payload, lock, searched, fetched, failKind , found >>

\* Line 73: json.dump reaches the file in pieces; leaving the with closes it.
WriteTitle(i) ==
    /\ pc[i] \in {"w1", "w2"}
    /\ LET last == pc[i] = "w2"
           h == IF last THEN [handle EXCEPT ![i] = 0] ELSE handle
       IN  /\ handle' = h
           /\ inode' = Gc(Written(handle[i], payload[i], IF last THEN 2 ELSE 1),
                          canon, tmpf, h, mainHandle)
           /\ pc' = [pc EXCEPT ![i] = IF last THEN "replace" ELSE "w2"]
    /\ UNCHANGED << runVars, mainVars, canon, tmpf, search_cache, cached, media_type,
                    tmdb_id, payload, lock, searched, fetched, failKind , found >>

\* Line 74: os.replace(tmp, path); FileNotFoundError when tmp is gone.
ReplaceTitle(i) ==
    /\ pc[i] = "replace"
    /\ LET p == _title_cache_path(media_type[i], tmdb_id[i])
       IN  IF tmpf[p] # 0
           THEN /\ canon' = [canon EXCEPT ![p] = tmpf[p]]
                /\ tmpf' = [tmpf EXCEPT ![p] = 0]
                /\ inode' = Gc(inode, canon', tmpf', handle, mainHandle)
                /\ pc' = [pc EXCEPT ![i] = "ok"]
                /\ UNCHANGED failKind
           ELSE /\ pc' = [pc EXCEPT ![i] = "failed"]
                /\ failKind' = [failKind EXCEPT ![i] = "save"]
                /\ UNCHANGED << inode, canon, tmpf >>
    /\ UNCHANGED << runVars, mainVars, handle, search_cache, cached, media_type,
                    tmdb_id, payload, lock, searched, fetched , found >>

\* ------------------------------------------------------- the calling thread
workerVars == << pc, cached, media_type, tmdb_id, payload, lock, searched, fetched,
                 failKind, found >>

\* Lines 176-178 and 208: the cache is loaded and every query submitted.
Begin ==
    /\ mainPc = "start"
    /\ search_cache' = _load_search_cache
    /\ cold' = \A p \in Paths : canon[p] = 0
    /\ loaded' = Seen(SearchPath)
    /\ mainPc' = "collect"
    /\ UNCHANGED << titles_years, max_workers, run, prev, callVars, items, no_match_items,
                    collected, saves, mainHandle, diskVars, workerVars >>

\* The loop of lines 209-215 with the worker's exception caught and the
\* query reported as a no-match.
CollectSwallowing(i) ==
    /\ mainPc = "collect"
    /\ Finished(i)
    /\ ~collected[i]
    /\ collected' = [collected EXCEPT ![i] = TRUE]
    /\ IF pc[i] = "ok"
       THEN /\ items' = Append(items, payload[i])
            /\ UNCHANGED no_match_items
       ELSE /\ no_match_items' = Append(no_match_items,
                    [title |-> titles_years[i].title, year |-> titles_years[i].year])
            /\ UNCHANGED items
    /\ mainPc' = IF \A j \in W \ {i} : collected[j] THEN "save_open" ELSE "collect"
    /\ UNCHANGED << runVars, saves, mainHandle, loaded, diskVars, search_cache,
                    workerVars >>

\* The loop of lines 209-215 keeping one record per catalog identifier.
CollectOncePerId(i) ==
    /\ mainPc = "collect"
    /\ Finished(i)
    /\ ~collected[i]
    /\ collected' = [collected EXCEPT ![i] = TRUE]
    /\ IF pc[i] = "failed"
       THEN /\ mainPc' = "raising"
            /\ UNCHANGED << items, no_match_items >>
       ELSE /\ IF pc[i] = "ok"
               THEN /\ items' = IF \E n \in 1..Len(items) : items[n] = payload[i]
                                THEN items ELSE Append(items, payload[i])
                    /\ UNCHANGED no_match_items
               ELSE /\ no_match_items' = Append(no_match_items,
                            [title |-> titles_years[i].title, year |-> titles_years[i].year])
                    /\ UNCHANGED items
            /\ mainPc' = IF \A j \in W \ {i} : collected[j] THEN "save_open" ELSE "collect"
    /\ UNCHANGED << runVars, saves, mainHandle, loaded, diskVars, search_cache,
                    workerVars >>

\* Lines 209-215: as_completed hands over a finished future.
Collect(i) ==
    /\ mainPc = "collect"
    /\ Finished(i)
    /\ ~collected[i]
    /\ collected' = [collected EXCEPT ![i] = TRUE]
    /\ IF pc[i] = "failed"
       THEN /\ mainPc' = "raising"
            /\ UNCHANGED << items, no_match_items >>
       ELSE /\ IF pc[i] = "ok"
               THEN /\ items' = Append(items, payload[i])
                    /\ UNCHANGED no_match_items
               ELSE /\ no_match_items' = Append(no_match_items,
                            [title |-> titles_years[i].title, year |-> titles_years[i].year])
                    /\ UNCHANGED items
            /\ mainPc' = IF \A j \in W \ {i} : collected[j] THEN "save_open" ELSE "collect"
    /\ UNCHANGED << runVars, saves, mainHandle, loaded, diskVars, search_cache,
                    workerVars >>

\* Leaving the with block without waiting: the exception leaves the call at
\* once and what the pool has not started is dropped.
RaiseAtOnce ==
    /\ mainPc = "raising"
    /\ mainPc' = "raised"
    /\ UNCHANGED << runVars, items, no_match_items, collected, saves, mainHandle,
                    loaded, diskVars, search_cache, workerVars >>

\* Line 207: leaving the with block on an exception waits for every worker,
\* then the exception leaves resolve_and_fetch_credits_parallel.
Raise ==
    /\ mainPc = "raising"
    /\ \A i \in W : Finished(i)
    /\ mainPc' = "raised"
    /\ UNCHANGED << runVars, items, no_match_items, collected, saves, mainHandle,
                    loaded, diskVars, search_cache, workerVars >>

\* Line 42: open(tmp, "w").
OpenSearchTmp ==
    /\ mainPc = "save_open"
    /\ inode' = OpenedInodes(SearchPath, search_cache)
    /\ tmpf' = [tmpf EXCEPT ![SearchPath] = OpenedId(SearchPath)]
    /\ mainHandle' = OpenedId(SearchPath)
    /\ mainPc' = "save_w1"
    /\ UNCHANGED << runVars, items, no_match_items, collected, saves, loaded, canon,
                    handle, search_cache, workerVars >>

\* Line 43.
WriteSearch ==
    /\ mainPc \in {"save_w1", "save_w2"}
    /\ LET last == mainPc = "save_w2"
           h == IF last THEN 0 ELSE mainHandle
       IN  /\ mainHandle' = h
           /\ inode' = Gc(Written(mainHandle, search_cache, IF last THEN 2 ELSE 1),
                          canon, tmpf, handle, h)
           /\ mainPc' = IF last THEN "save_replace" ELSE "save_w2"
    /\ UNCHANGED << runVars, items, no_match_items, collected, saves, loaded, canon,
                    tmpf, handle, search_cache, workerVars >>

\* Lines 44 and 218.
ReplaceSearch ==
    /\ mainPc = "save_replace"
    /\ IF tmpf[SearchPath] # 0
       THEN /\ canon' = [canon EXCEPT ![SearchPath] = tmpf[SearchPath]]
            /\ tmpf' = [tmpf EXCEPT ![SearchPath] = 0]
            /\ inode' = Gc(inode, canon', tmpf', handle, mainHandle)
            /\ saves' = saves + 1
            /\ mainPc' = "returned"
       ELSE /\ mainPc' = "raised"
            /\ UNCHANGED << inode, canon, tmpf, saves >>
    /\ UNCHANGED << runVars, items, no_match_items, collected, mainHandle, loaded,
                    handle, search_cache, workerVars >>

\* ------------------------------------------------------------ the next call
Reset ==
    /\ run' = run + 1
    /\ mainPc' = "start"
    /\ search_cache' = EmptyCache
    /\ items' = <<>>
    /\ no_match_items' = <<>>
    /\ saves' = 0
    /\ lock' = 0
    /\ mainHandle' = 0
    /\ cold' = FALSE
    /\ pc' = [i \in W |-> "queued"]
    /\ cached' = [i \in W |-> Miss]
    /\ media_type' = [i \in W |-> ""]
    /\ tmdb_id' = [i \in W |-> 0]
    /\ payload' = [i \in W |-> NoPayload]
    /\ searched' = [i \in W |-> FALSE]
    /\ fetched' = [i \in W |-> FALSE]
    /\ failKind' = [i \in W |-> ""]
    /\ found' = [i \in W |-> ""]
    /\ loaded' = ""
    /\ handle' = [i \in W |-> 0]
    /\ collected' = [i \in W |-> FALSE]
    /\ inode' = Gc(inode, canon, tmpf, handle', 0)
    /\ UNCHANGED << titles_years, max_workers, canon, tmpf, callVars >>

\* The caller calls again with the same titles_years.
NextRun ==
    /\ mainPc \in {"returned", "raised"}
    /\ run < MaxRuns
    /\ prev' = [ok |-> mainPc = "returned", cold |-> cold,
                clean |-> \A i \in W : failKind[i] \notin {"search", "fetch"},
                matched |-> items, unmatched |-> no_match_items]
    /\ Reset

\* The process dies at any point of a call and is started again.
Crash ==
    /\ mainPc \notin {"start", "returned", "raised"}
    /\ run < MaxRuns
    /\ prev' = NoResult
    /\ Reset

Next ==
    \/ Begin
    \/ \E i \in W : Start(i)
    \/ \E i \in W : Acquire(i)
    \/ \E i \in W : ReadCache(i)
    \/ \E i \in W : SearchOk(i)
    \/ \E i \in W : SearchFail(i)
    \/ \E i \in W : PutNone(i)
    \/ \E i \in W : PutEntry(i)
    \/ \E i \in W : LoadTitle(i)
    \/ \E i \in W : FetchOk(i)
    \/ \E i \in W : FetchFail(i)
    \/ \E i \in W : OpenTitleTmp(i)
    \/ \E i \in W : WriteTitle(i)
    \/ \E i \in W : ReplaceTitle(i)
    \/ \E i \in W : Collect(i)
    \/ Raise
    \/ OpenSearchTmp
    \/ WriteSearch
    \/ ReplaceSearch
    \/ NextRun
    \/ Crash

Spec == Init /\ [][Next]_vars

\* --------------------------------------------- one call, running to its end
\* Every step of the thread working on unit i.
UnitStep(i) ==
    \/ Start(i)
    \/ Acquire(i)
    \/ ReadCache(i)
    \/ SearchOk(i)
    \/ SearchFail(i)
    \/ PutNone(i)
    \/ PutEntry(i)
    \/ LoadTitle(i)
    \/ FetchOk(i)
    \/ FetchFail(i)
    \/ OpenTitleTmp(i)
    \/ WriteTitle(i)
    \/ ReplaceTitle(i)

\* Every step of the calling thread.
MainStep ==
    \/ Begin
    \/ \E i \in W : Collect(i)
    \/ Raise
    \/ OpenSearchTmp
    \/ WriteSearch
    \/ ReplaceSearch

NextLive ==
    \/ \E i \in W : UnitStep(i)
    \/ MainStep

\* A thread that can take a step takes one: the pool starts a queued call
\* when a thread is free, a released lock is taken, a remote call answers or
\* raises (timeout=30, lines 86 and 151), and the process is not killed.
Fairness ==
    /\ \A i \in 1..MaxBatch : WF_vars(i \in W /\ UnitStep(i))
    /\ WF_vars(MainStep)

SpecLive == Init /\ [][NextLive]_vars /\ Fairness

\* ------------------------------------------ _pick_best_result called alone
MaxCands == 3          \* longest candidate list tried

DateShort == <<"1", "9", "9">>
DateBare == <<"1", "9", "9", "9">>
DateWord == <<"1", "9", "x", "9", "-", "0", "3">>

PickDates == { <<>>, DateShort, DateBare, DateWord, Date1999, Date2005 }
PickYears == {NoYear, 1999, 2005}

\* Lists of candidates as search_multi returns them; the id tells the place.
\* The date field of the other type holds a date that must not be looked at.
CandLists ==
    UNION { { [i \in 1..n |->
                 IF ts[i] = "movie" THEN Cand("movie", 10 + i, ds[i], Date2005)
                 ELSE Cand("tv", 10 + i, Date2005, ds[i])] :
              ts \in [1..n -> {"movie", "tv"}], ds \in [1..n -> PickDates] } :
            n \in 0..MaxCands }

\* The batch variables, at rest while a function is called on its own.
AtRest ==
    /\ titles_years = << [title |-> <<"a">>, year |-> NoYear] >>
    /\ max_workers = 1
    /\ run = 1
    /\ mainPc = "start"
    /\ search_cache = EmptyCache
    /\ items = <<>>
    /\ no_match_items = <<>>
    /\ saves = 0
    /\ lock = 0
    /\ mainHandle = 0
    /\ cold = FALSE
    /\ prev = NoResult
    /\ WorkerInit(titles_years)
    /\ inode = <<>>
    /\ canon = [p \in Paths |-> 0]
    /\ tmpf = [p \in Paths |-> 0]

batchVars == << titles_years, max_workers, run, mainPc, search_cache, items, no_match_items,
                collected, saves, pc, cached, media_type, tmdb_id, payload, lock,
                searched, fetched, failKind, found, loaded, inode, canon, tmpf, handle,
                mainHandle, cold, prev >>

InitPick ==
    /\ AtRest
    /\ arg \in [results : CandLists, year : PickYears]
    /\ res = NoPick
    /\ called = ""

CallPick ==
    /\ called = ""
    /\ res' = _pick_best_result(arg.results, arg.year)
    /\ called' = "_pick_best_result"
    /\ UNCHANGED << arg, batchVars >>

NextPick == CallPick

SpecPick == InitPick /\ [][NextPick]_vars

\* ------------------------------------- _normalized_runtime_minutes on its own
MaxRuntimes == 4

RuntimeValues == {JNull, JFloat(60), JInt(0 - 5), JInt(0), JInt(30), JInt(45)}

RuntimeLists == UNION { [1..n -> RuntimeValues] : n \in 0..MaxRuntimes }

\* Payloads with and without each of the two duration keys.
RuntimePayloads ==
    { [id |-> 1, runtime |-> r, episode_run_time |-> l] :
        r \in {JNull, JInt(0 - 5), JInt(0), JInt(30)}, l \in RuntimeLists }
    \cup { [id |-> 1, runtime |-> r] : r \in RuntimeValues }
    \cup { [id |-> 1, episode_run_time |-> l] : l \in RuntimeLists }
    \cup { [id |-> 1] }

InitRuntime ==
    /\ AtRest
    /\ arg \in [payload : RuntimePayloads, media_type : {"movie", "tv"}]
    /\ res = 0
    /\ called = ""

CallRuntime ==
    /\ called = ""
    /\ res' = _normalized_runtime_minutes(arg.payload, arg.media_type)
    /\ called' = "_normalized_runtime_minutes"
    /\ UNCHANGED << arg, batchVars >>

NextRuntime == CallRuntime

SpecRuntime == InitRuntime /\ [][NextRuntime]_vars

\* ================================================================== claims
Terminal == mainPc \in {"returned", "raised"}

TitlePathOf(i) == _title_cache_path(media_type[i], tmdb_id[i])

RECURSIVE Count(_, _)
Count(x, seq) ==
    IF seq = <<>> THEN 0
    ELSE (IF Head(seq) = x THEN 1 ELSE 0) + Count(x, Tail(seq))

SameBag(s, t) ==
    /\ Len(s) = Len(t)
    /\ \A n \in 1..Len(s) : Count(s[n], s) = Count(s[n], t)

NoUnitFailed == \A i \in W : failKind[i] = ""

\* C1: two units of one batch that resolve the same key, absent from the
\* search cache, issue one remote search for it between them (no unit of the
\* batch having failed), and the cache then holds one entry for the key.
C1_OneSearchPerKey ==
    /\ \A i \in W : \A j \in W :
          (i < j /\ Key(i) = Key(j) /\ NoUnitFailed) => ~(searched[i] /\ searched[j])
    /\ \A i \in W : pc[i] \in {"ok", "no_match"} => Key(i) \in DOMAIN search_cache

\* C2: when the fetch of one query fails with a transport error, the call
\* still returns, and its collections hold the outcome of every other query.
C2_OthersStillReported ==
    (Terminal /\ \E i \in W : failKind[i] = "fetch")
        => \A j \in W : pc[j] \in {"ok", "no_match"} =>
              (mainPc = "returned" /\ collected[j])

\* C3: a call on an empty cache in which no remote call fails, followed by a
\* call with the same titles_years: the second call issues no remote search and no
\* remote fetch, and returns the same matched and unmatched results (compared
\* as collections, the order being the order of completion).
C3_WarmRerunSame ==
    (prev.cold /\ prev.clean)
        => /\ \A i \in W : ~searched[i] /\ ~fetched[i]
           /\ mainPc # "raised"
           /\ mainPc = "returned" =>
                 /\ prev.ok
                 /\ SameBag(items, prev.matched)
                 /\ SameBag(no_match_items, prev.unmatched)

\* C4: every call has persisted the search cache exactly once when it ends,
\* and the durable search cache then holds every entry of the mapping.
C4_PersistedOnce ==
    /\ saves <= 1
    /\ Terminal =>
          /\ saves = 1
          /\ _load_search_cache = search_cache

\* C5: units saving the same record concurrently: no save fails and the
\* canonical record file is never a partial record.
C5_SaveRaceHarmless ==
    /\ \A i \in W : failKind[i] # "save"
    /\ \A p \in TitlePaths : canon[p] # 0 => ~Torn(inode[canon[p]])

\* C6: whatever step of a save the process dies at, the canonical files it
\* leaves behind are each absent, as found before, or complete: the next call
\* never finds a file cut short by a save.
C6_CrashLeavesNoTornFile ==
    mainPc = "start" => \A p \in Paths : canon[p] # 0 => ~Torn(inode[canon[p]])

C8_CachedNoMatchShortCircuits ==
    \A i \in W : cached[i] = NoMatchEntry =>
        /\ pc[i] = "no_match"
        /\ ~searched[i]
        /\ ~fetched[i]
        /\ collected[i] => \E n \in 1..Len(no_match_items) :
              no_match_items[n] = [title |-> titles_years[i].title, year |-> titles_years[i].year]

C8_Witness ==
    \E i \in W : cached[i] = NoMatchEntry /\ collected[i] /\ mainPc = "returned"

\* The release year of a candidate equals year: the first four characters of
\* the date of its type are the digits of the year.
HasYear(r, year) ==
    LET d == IF r.media_type = "movie" THEN r.release_date ELSE r.first_air_date
    IN  Len(d) >= 4 /\ SubSeq(d, 1, 4) = IntStr(year)

Identity(r) == [media_type |-> r.media_type, id |-> r.id]

\* C9: _pick_best_result returns nothing on an empty list; with a year that
\* some candidate's release year equals, the identity of the first such
\* candidate; with no year, or no candidate of that year, the identity of the
\* first candidate.
C9_PickBest ==
    called = "_pick_best_result" =>
        LET rs == arg.results
            hits == IF arg.year = NoYear THEN {}
                    ELSE {n \in 1..Len(rs) : HasYear(rs[n], arg.year)}
        IN  /\ rs = <<>> => res = NoPick
            /\ (rs # <<>> /\ hits # {}) =>
                  \E n \in hits : /\ \A m \in hits : n <= m
                                  /\ res = Identity(rs[n])
            /\ (rs # <<>> /\ hits = {}) => res = Identity(rs[1])

C9_Witness ==
    /\ called = "_pick_best_result"
    /\ Len(arg.results) >= 2
    /\ arg.year # NoYear
    /\ ~HasYear(arg.results[1], arg.year)
    /\ HasYear(arg.results[2], arg.year)
    /\ res = Identity(arg.results[2])

Unreadable(p) == canon[p] = 0 \/ ~Parseable(inode[canon[p]])

\* C10: a missing or unparseable cache file raises nothing.  The call that
\* finds such a search cache starts from the empty mapping; a unit that finds
\* such a record file goes on to the remote fetch; and when the call ends,
\* every record a unit fetched is the content of its record file.
C10_CorruptIsMiss ==
    /\ [][(mainPc = "start" /\ Unreadable(SearchPath))
             => (mainPc' = "collect" /\ search_cache' = EmptyCache)]_vars
    /\ [][\A i \in W : (pc[i] = "load" /\ Unreadable(TitlePathOf(i)) /\ run' = run)
             => pc'[i] \in {"load", "fetch"}]_vars
    /\ [](Terminal => \A i \in W : (fetched[i] /\ failKind[i] # "fetch") =>
             /\ ~Unreadable(TitlePathOf(i))
             /\ inode[canon[TitlePathOf(i)]].data = Augmented(media_type[i], tmdb_id[i]))

C10_Witness ==
    /\ mainPc = "returned"
    /\ loaded = "unparseable"
    /\ \E i \in W :
          /\ found[i] = "unparseable"
          /\ pc[i] = "ok"
          /\ Seen(TitlePathOf(i)) = "document"

\* C11: at every moment of a batch the units that have started and have not
\* completed or failed number at most max_workers.
C11_AtMostMaxWorkersRunning == Cardinality(Running) <= max_workers

C11_Witness ==
    /\ Cardinality(Running) = max_workers
    /\ \E i \in W : pc[i] = "queued"

WellFormedEntry(e) ==
    \/ e.media_type \in {"movie", "tv"} /\ e.id > 0
    \/ e.media_type = NoneType /\ e.id = 0

\* C12: every entry of the search cache, in memory and in the file, is either
\* (movie or tv, id > 0) or (None, 0): an entry with a type has a positive id.
C12_EntriesWellFormed ==
    /\ \A k \in DOMAIN search_cache : WellFormedEntry(search_cache[k])
    /\ \A k \in DOMAIN _load_search_cache : WellFormedEntry(_load_search_cache[k])

C12_Witness ==
    /\ mainPc = "returned"
    /\ run = 1
    /\ loaded = "absent"
    /\ \E k \in DOMAIN _load_search_cache : _load_search_cache[k].media_type = NoneType
    /\ \E k \in DOMAIN _load_search_cache : _load_search_cache[k].id > 0

PositiveInt(x) == x.t = "int" /\ x.v > 0

\* C13: for a movie the result is the runtime field when it is a positive
\* integer and 0 otherwise (negative, zero, missing, not an integer); for a
\* series it is the first positive integer of the episode runtime list in
\* order, and 0 when the list has none or is missing.
C13_NormalizedRuntime ==
    called = "_normalized_runtime_minutes" =>
        IF arg.media_type = "movie"
        THEN IF "runtime" \in DOMAIN arg.payload /\ PositiveInt(arg.payload.runtime)
             THEN res = arg.payload.runtime.v
             ELSE res = 0
        ELSE LET l == IF "episode_run_time" \in DOMAIN arg.payload
                      THEN arg.payload.episode_run_time ELSE <<>>
             IN  IF \E j \in 1..Len(l) : PositiveInt(l[j])
                 THEN \E j \in 1..Len(l) :
                          /\ PositiveInt(l[j])
                          /\ \A k \in 1..(j - 1) : ~PositiveInt(l[k])
                          /\ res = l[j].v
                 ELSE res = 0

C13_Witness ==
    /\ called = "_normalized_runtime_minutes"
    /\ arg.media_type = "tv"
    /\ "episode_run_time" \in DOMAIN arg.payload
    /\ arg.payload.episode_run_time = <<JInt(0), JInt(0), JInt(45), JInt(30)>>
    /\ res = 45

SameLetter(c, d) == c = d \/ {c, d} = {"a", "A"} \/ {c, d} = {"b", "B"}

\* s and t are one text up to letter case, between any leading and trailing
\* blanks.
SameTitle(s, t) ==
    \E a \in 0..Len(s), b \in 0..Len(s), c \in 0..Len(t), d \in 0..Len(t) :
        /\ a + b <= Len(s)
        /\ c + d <= Len(t)
        /\ Len(s) - a - b = Len(t) - c - d
        /\ \A k \in 1..a : s[k] = " "
        /\ \A k \in (Len(s) - b + 1)..Len(s) : s[k] = " "
        /\ \A k \in 1..c : t[k] = " "
        /\ \A k \in (Len(t) - d + 1)..Len(t) : t[k] = " "
        /\ \A k \in 1..(Len(s) - a - b) : SameLetter(s[a + k], t[c + k])

Equivalent(i, j) ==
    /\ titles_years[i].year = titles_years[j].year
    /\ SameTitle(titles_years[i].title, titles_years[j].title)

\* Unit i is past lines 183-196: its key has been looked up and, on a miss,
\* searched for and stored.
Resolved(i) ==
    \/ pc[i] \in {"load", "fetch", "open", "w1", "w2", "replace", "ok", "no_match"}
    \/ pc[i] = "failed" /\ failKind[i] \in {"fetch", "save"}

\* C14: two queries of the same year whose titles differ only in letter case
\* or in leading and trailing blanks have the same key; once one of them is
\* resolved the mapping holds an entry under the key of the other, and the
\* other, looking its key up from then on, gets that entry and goes on
\* without a remote search.
C14_KeyIgnoresCaseAndBlanks ==
    /\ [](\A i \in W : \A j \in W : Equivalent(i, j) => Key(i) = Key(j))
    /\ [](\A i \in W : \A j \in W :
             (Equivalent(i, j) /\ Resolved(i)) => Key(j) \in DOMAIN search_cache)
    /\ [][\A i \in W : \A j \in W :
             (/\ i # j
              /\ Equivalent(i, j)
              /\ Resolved(i)
              /\ pc[j] = "read"
              /\ pc'[j] # "read"
              /\ run' = run)
             => /\ pc'[j] \in {"load", "no_match"}
                /\ Key(i) \in DOMAIN search_cache
                /\ cached'[j] = search_cache[Key(i)]
                /\ ~searched'[j]]_vars

C14_Witness ==
    /\ mainPc = "returned"
    /\ \E i \in W : \E j \in W :
          /\ titles_years[i].title # titles_years[j].title
          /\ Equivalent(i, j)
          /\ searched[i]
          /\ ~searched[j]
          /\ cached[j] # Miss
          /\ pc[j] = "ok"

RealHit(c) == c.media_type \in {"movie", "tv"} /\ c.id > 0

\* C15: a unit that finds an entry with a real type and id under its key
\* issues no remote search, changes nothing in the search cache mapping, and
\* goes from the lookup straight to title_with_credits with the type and id
\* of the entry.
C15_HitSkipsSearch ==
    /\ [](\A i \in W : RealHit(cached[i]) =>
             /\ ~searched[i]
             /\ media_type[i] = cached[i].media_type
             /\ tmdb_id[i] = cached[i].id
             /\ \/ pc[i] \in {"load", "fetch", "open", "w1", "w2", "replace", "ok"}
                \/ pc[i] = "failed" /\ failKind[i] \in {"fetch", "save"})
    /\ [][\A i \in W : (pc[i] = "read" /\ RealHit(cached'[i])) => pc'[i] = "load"]_vars
    /\ [][\A i \in W : (RealHit(cached'[i]) /\ pc'[i] # pc[i])
             => search_cache' = search_cache]_vars

C15_Witness ==
    /\ mainPc = "returned"
    /\ \E i \in W : RealHit(cached[i]) /\ fetched[i] /\ pc[i] = "ok"

\* C16: title_with_credits fetches only when it found no parseable record
\* file; and once it has returned after a fetch that was answered, the
\* record file holds the augmented record, and keeps holding it whatever the
\* other units of the batch do.
C16_FetchedRecordIsDurable ==
    \A i \in W :
        /\ fetched[i] => found[i] \in {"absent", "unparseable"}
        /\ found[i] = "document" => (~fetched[i] /\ pc[i] = "ok")
        /\ (fetched[i] /\ failKind[i] # "fetch" /\ Finished(i)) =>
              /\ pc[i] = "ok"
              /\ ~Unreadable(TitlePathOf(i))
              /\ inode[canon[TitlePathOf(i)]].data = Augmented(media_type[i], tmdb_id[i])

Dispatched == mainPc \in {"collect", "raising"}

AllEnded == \A i \in W : Finished(i)

\* C17: once the batch is submitted, also when some unit has failed, every
\* unit ends as completed, no-match or failed and the call then returns or
\* raises; the call has returned or raised only when every unit has ended;
\* a queued unit leaves the queue only by being started.
C17_EveryUnitFinishes ==
    /\ Dispatched ~> (AllEnded /\ Terminal)
    /\ (\E j \in W : pc[j] = "failed") ~> AllEnded
    /\ [](Terminal => AllEnded)
    /\ [][\A i \in W : pc[i] = "queued" => pc'[i] \in {"queued", "acq_read"}]_vars

C17_Witness ==
    /\ mainPc = "raising"
    /\ \E i \in W : pc[i] = "failed" /\ collected[i]
    /\ \E j \in W : pc[j] = "queued"

\* The units inside a with _cache_lock block.
InLock == {i \in W : pc[i] \in {"read", "put_none", "put"}}

\* C18: a step of a unit that reads or writes the search cache mapping is
\* taken holding the lock; at most one unit is inside a locked block, and it
\* is the holder; no unit holds the lock during a remote call; and the
\* calling thread saves the mapping only when every unit has ended.
C18_MappingUnderLock ==
    /\ [][\A i \in W : (pc'[i] # pc[i] /\ run' = run /\ search_cache' # search_cache)
             => lock = i]_vars
    /\ [][\A i \in W : (pc'[i] # pc[i] /\ run' = run /\ cached'[i] # cached[i])
             => lock = i]_vars
    /\ [](Cardinality(InLock) <= 1)
    /\ [](\A i \in W : i \in InLock <=> lock = i)
    /\ [](\A i \in W : pc[i] \in {"search", "fetch"} => lock # i)
    /\ [](mainPc \in {"save_open", "save_w1", "save_w2", "save_replace"} => AllEnded)

C18_Witness ==
    \E i \in W : \E j \in W :
        /\ lock = i
        /\ pc[i] = "put"
        /\ pc[j] \in {"acq_read", "acq_none", "acq_put"}

\* C19: the step at which a unit's search fails changes nothing in the search
\* cache mapping and ends the unit; from then on an entry under its key, in
\* the mapping or in the file, is one another unit of the same key stored
\* after a search of its own that was answered, never a no-match put there
\* for the failed search.
C19_FailedSearchStoresNothing ==
    /\ [][\A i \in W : (failKind'[i] = "search" /\ failKind[i] # "search")
             => (search_cache' = search_cache /\ pc'[i] = "failed")]_vars
    /\ [](\A i \in W : failKind[i] = "search" =>
             /\ pc[i] = "failed"
             /\ cached[i] = Miss
             /\ Key(i) \in (DOMAIN search_cache) \cup (DOMAIN _load_search_cache) =>
                   \E j \in W \ {i} : /\ Key(j) = Key(i)
                                       /\ searched[j]
                                       /\ failKind[j] # "search")

C19_Witness ==
    /\ mainPc = "raised"
    /\ \E i \in W :
          /\ failKind[i] = "search"
          /\ titles_years[i].title = <<"b">>
          /\ Key(i) \notin DOMAIN search_cache
          /\ \E j \in W : pc[j] = "ok" /\ searched[j]

QueryOf(i) == [title |-> titles_years[i].title, year |-> titles_years[i].year]

\* C20: a call in which no unit failed returns, and then every query has one
\* outcome: the matched records and the unmatched entries together are as
\* many as the queries, a record per completed unit and an entry per
\* no-match unit, equal queries and queries of one catalog identifier each
\* counted; an unmatched entry is the title and year of a no-match query as
\* given, as many times as the query was given.
C20_OneOutcomePerQuery ==
    (Terminal /\ NoUnitFailed) =>
        /\ mainPc = "returned"
        /\ Len(items) + Len(no_match_items) = Len(titles_years)
        /\ Len(items) = Cardinality({i \in W : pc[i] = "ok"})
        /\ Len(no_match_items) = Cardinality({i \in W : pc[i] = "no_match"})
        /\ \A i \in W : pc[i] = "ok" => Count(payload[i], items) =
              Cardinality({j \in W : pc[j] = "ok" /\ payload[j] = payload[i]})
        /\ \A n \in 1..Len(no_match_items) :
              \E i \in W : pc[i] = "no_match" /\ no_match_items[n] = QueryOf(i)
        /\ \A i \in W : pc[i] = "no_match" => Count(QueryOf(i), no_match_items) =
              Cardinality({j \in W : pc[j] = "no_match" /\ QueryOf(j) = QueryOf(i)})

C20_Witness ==
    /\ mainPc = "returned"
    /\ NoUnitFailed
    /\ Len(titles_years) = 2
    /\ titles_years[1].title # titles_years[2].title
    /\ Len(items) = 2
    /\ items[1] = items[2]

====
